---------------------------- MODULE Spec2Model ----------------------------
(***************************************************************************)
(* Time-bounded tree search over the maze game of chapter3, and the       *)
(* placement search of chapter4:                                           *)
(*   - MazeState (new, is_done, evaluate_score, advance, legal_actions),   *)
(*   - the max-heap frontier ordered by `impl Ord for MazeState`,          *)
(*   - beam_search_action_with_time_threshold  (BeamSearchWithTime05.rs),  *)
(*   - chokudai_search_action_wirh_time_threshold                          *)
(*                                        (ChokudaiSearchWithTime07.rs),   *)
(*   - greedy_action and the test_ai_score play loops that feed the        *)
(*     returned action back into MazeState::advance,                       *)
(*   - AutoMoveMazeState and simulated_annealing                           *)
(*                                           (SimulatedAnnealing02.rs).    *)
(*                                                                         *)
(* The wall clock (TimeKeeper) is the environment: it may expire between   *)
(* any two steps of a search and never un-expires.                         *)
(***************************************************************************)
EXTENDS Integers, Sequences, FiniteSets, TLC

(***************************************************************************)
(* Program constants.  The two engines are compiled with a 30 x 30 board   *)
(* and END_TURN = 100; the same MazeState is compiled in                   *)
(* TestGreedyScore03.rs with the 3 x 4 board and END_TURN = 4 used here.   *)
(***************************************************************************)
H == 3
W == 4
END_TURN == 4

\* chapter4/SimulatedAnnealing02.rs has a board size, a game length and a
\* number of characters of its own
AUTO_H == 5
AUTO_W == 5
AUTO_END_TURN == 5
CHARACTER_N == 3
INF == 1000000000

(***************************************************************************)
(* Bounds of the model.                                                    *)
(***************************************************************************)
\* seeds 0..MaxSeed are passed to MazeState::new
MaxSeed == 11
\* beam search is called with beam_width in 0..MaxWidth
MaxWidth == 5
\* chokudai search is called with beam_width in 0..MaxChokWidth
MaxChokWidth == 2
\* chokudai search is called with beam_depth in 0..MaxDepth
MaxDepth == 4
\* the clock expires at the latest when MaxRounds chokudai rounds are done
MaxRounds == 3
\* the clock expires at the latest when MaxBeamRounds beam rounds are done
\* (more than the END_TURN rounds a search from a running game can take)
MaxBeamRounds == 5
\* the shared RNG is met at one of the stream positions 0..MaxRngSeed
MaxRngSeed == 2
\* simulated_annealing is called with number in 0..MaxNumber
MaxNumber == 3
\* ... and with start_temp and end_temp among these (main: 500.0, 10.0)
Temps == {-10, 0, 10, 500}

VARIABLES
    state,        \* the play loop's MazeState: the root handed to a search
    pc,           \* "play" | "beam" | "chok" | "done" | "panic" | "crash"
    engine,       \* "none" | "beam" | "chok": the search being (last) run
    beam_width,   \* parameter of the running search
    beam_depth,   \* parameter of the running chokudai search
    timeOver,     \* what TimeKeeper::is_time_over() answers now
    now_beam,     \* beam search: the current frontier (heap layout)
    next_beam,    \* beam search: the frontier being built
    best_state,   \* beam search: best_state
    t,            \* beam search: round number; chokudai: depth index
    i,            \* beam search: index of the `for _ in 0..beam_width` loop
    beam,         \* chokudai: the beam_depth + 1 frontiers
    result,       \* the value returned by the search (-1: none yet)
    rounds,       \* history: rounds completed by the running search
    pops,         \* history: states popped and expanded by the search
    timedOut,     \* history: the search returned from the time-over branch
    completed,    \* history: beam search's frontier as the last round left it
    reportedLog,  \* history: chokudai's would-be answer score per round
    anneal        \* chapter4: the locals of simulated_annealing

vars == <<state, pc, engine, beam_width, beam_depth, timeOver, now_beam,
          next_beam, best_state, t, i, beam, result, rounds, pops, timedOut,
          completed, reportedLog, anneal>>

-----------------------------------------------------------------------------
(***************************************************************************)
(* MazeState                                                               *)
(***************************************************************************)
dy == <<0, 0, 1, -1>>
dx == <<1, -1, 0, 0>>

\* points[y][x] is kept row-major in a sequence of H * W cells
Cell(y, x) == y * W + x + 1

\* Stand-in for rand's StdRng (outside the repository): a linear
\* congruential stream; Gen(seed, k, n) is the k-th gen_range(0..n) draw.
RECURSIVE RngState(_, _)
RngState(seed, k) ==
    IF k = 0 THEN seed ELSE (RngState(seed, k - 1) * 75 + 74) % 65537

Gen(seed, k, n) == (RngState(seed, k) \div 7) % n

\* MazeState::new(Some(seed)): the character first, then the cells in
\* row-major order, the character's own cell skipped (it keeps 0).
new(seed) ==
    LET cy == Gen(seed, 1, H)
        cx == Gen(seed, 2, W)
        cc == Cell(cy, cx)
    IN  [ y |-> cy, x |-> cx,
          points |-> [c \in 1..(H * W) |->
                        IF c = cc THEN 0
                        ELSE Gen(seed, 2 + (IF c < cc THEN c ELSE c - 1), 10)],
          turn |-> 0, game_score |-> 0, evaluated_score |-> 0,
          first_action |-> -1 ]

is_done_after_end(s) == s.turn = END_TURN + 1

is_done(s) == s.turn = END_TURN

evaluate_score(s) == [s EXCEPT !.evaluated_score = s.game_score]

advance_leaves_points(s, action) ==
    LET nx == s.x + dx[action + 1]
        ny == s.y + dy[action + 1]
        point == s.points[Cell(ny, nx)]
    IN  [s EXCEPT !.x = nx, !.y = ny,
                  !.game_score = IF point > 0 THEN @ + point ELSE @,
                  !.turn = @ + 1]

advance(s, action) ==
    LET nx == s.x + dx[action + 1]
        ny == s.y + dy[action + 1]
        point == s.points[Cell(ny, nx)]
    IN  [s EXCEPT !.x = nx, !.y = ny,
                  !.game_score = IF point > 0 THEN @ + point ELSE @,
                  !.points = IF point > 0 THEN [@ EXCEPT ![Cell(ny, nx)] = 0]
                             ELSE @,
                  !.turn = @ + 1]

legal_actions_up_to_edge(s) ==
    SelectSeq(<<0, 1, 2, 3>>,
              LAMBDA action :
                  LET ty == s.y + dy[action + 1]
                      tx == s.x + dx[action + 1]
                  IN  ty >= 0 /\ ty <= H /\ tx >= 0 /\ tx <= W)

\* `(y + dy) as usize < H`: a negative coordinate casts to a huge usize
legal_actions(s) ==
    SelectSeq(<<0, 1, 2, 3>>,
              LAMBDA action :
                  LET ty == s.y + dy[action + 1]
                      tx == s.x + dx[action + 1]
                  IN  ty >= 0 /\ ty < H /\ tx >= 0 /\ tx < W)

Range(seq) == {seq[k] : k \in 1..Len(seq)}

\* `x as usize` for an i32: a negative value wraps to 2^64 + x, which is
\* kept here at the top of TLC's integer range (never an action).
AsUsize(x) == IF x >= 0 THEN x ELSE 2147483647 + (x + 1)

-----------------------------------------------------------------------------
(***************************************************************************)
(* The frontier: std::collections::BinaryHeap<MazeState>, a max-heap laid  *)
(* out in a vector (positions from 0, kept in a sequence from 1), ordered  *)
(* by nothing but evaluated_score.  push sifts the new element up, pop     *)
(* moves the last element to the root, sifts it down to the bottom and     *)
(* back up; both compare with `<=`, which fixes the order among ties.      *)
(***************************************************************************)
LeReversed(a, b) == b.evaluated_score <= a.evaluated_score

LeStrict(a, b) == a.evaluated_score < b.evaluated_score

\* impl Ord for MazeState: a <= b
Le(a, b) == a.evaluated_score <= b.evaluated_score

RECURSIVE SiftUp(_, _, _, _)
SiftUp(data, elt, start, pos) ==
    IF pos > start
    THEN LET parent == (pos - 1) \div 2
         IN  IF Le(elt, data[parent + 1])
             THEN [data EXCEPT ![pos + 1] = elt]
             ELSE SiftUp([data EXCEPT ![pos + 1] = data[parent + 1]],
                         elt, start, parent)
    ELSE [data EXCEPT ![pos + 1] = elt]

RECURSIVE SiftDownToBottom(_, _, _)
SiftDownToBottom(data, elt, pos) ==
    LET end == Len(data)
        child == 2 * pos + 1
    IN  IF end >= 2 /\ child <= end - 2
        THEN LET c == IF Le(data[child + 1], data[child + 2])
                      THEN child + 1 ELSE child
             IN  SiftDownToBottom([data EXCEPT ![pos + 1] = data[c + 1]],
                                  elt, c)
        ELSE IF child = end - 1
             THEN SiftUp([data EXCEPT ![pos + 1] = data[child + 1]],
                         elt, 0, child)
             ELSE SiftUp(data, elt, 0, pos)

Push(heap, elt) == SiftUp(Append(heap, elt), elt, 0, Len(heap))

PopHeapUnsifted(heap) ==
    IF Len(heap) = 1 THEN << >>
    ELSE <<heap[Len(heap)]>> \o SubSeq(heap, 2, Len(heap) - 1)

\* the heap that pop() leaves; pop() returns Peek(heap)
PopHeap(heap) ==
    IF Len(heap) = 1 THEN << >>
    ELSE SiftDownToBottom(SubSeq(heap, 1, Len(heap) - 1), heap[Len(heap)], 0)

Peek(heap) == heap[1]

\* `for &action in &legal_actions { clone; advance; evaluate_score;
\*    if t == 0 { first_action = action }; next_beam.push(next_state) }`
StampsAtEveryDepth(depth) == TRUE

\* `if t == 0`: the states pushed while depth t = 0 is expanded are stamped
StampsFirstAction(depth) == depth = 0

RECURSIVE PushSuccessors(_, _, _, _)
PushSuccessors(heap, now_state, actions, depth) ==
    IF actions = << >> THEN heap
    ELSE LET action == Head(actions)
             moved == evaluate_score(advance(now_state, action))
             next_state == IF StampsFirstAction(depth)
                           THEN [moved EXCEPT !.first_action = action]
                           ELSE moved
         IN  \* the heap after this push is bound as a value, then the
             \* loop goes on with the remaining actions
             CHOOSE after \in {PushSuccessors(pushed, now_state,
                                              Tail(actions), depth) :
                                 pushed \in {Push(heap, next_state)}} : TRUE

ExpandDropsSuccessors(heap, now_state, depth) == heap

Expand(heap, now_state, depth) ==
    PushSuccessors(heap, now_state, legal_actions(now_state), depth)

-----------------------------------------------------------------------------
(***************************************************************************)
(* greedy_action (TestGreedyScore03.rs): the first legal action whose      *)
(* successor has the strictly greatest evaluated score.                    *)
(***************************************************************************)
RECURSIVE GreedyLoop(_, _, _, _)
GreedyLoop(s, actions, best_score, best_action) ==
    IF actions = << >> THEN best_action
    ELSE LET state_temp == evaluate_score(advance(s, Head(actions)))
         IN  IF state_temp.evaluated_score > best_score
             THEN GreedyLoop(s, Tail(actions), state_temp.evaluated_score,
                             Head(actions))
             ELSE GreedyLoop(s, Tail(actions), best_score, best_action)

greedy_action(s) == AsUsize(GreedyLoop(s, legal_actions(s), -1, -1))

-----------------------------------------------------------------------------
(***************************************************************************)
(* chapter4/SimulatedAnnealing02.rs: AutoMoveMazeState.  CHARACTER_N       *)
(* characters are placed on a board of its own size; from then on the game *)
(* plays itself, each character stepping to the neighbouring cell with the *)
(* most points.  The directions are the dy, dx of above.                   *)
(***************************************************************************)
AutoCell(y, x) == y * AUTO_W + x + 1

\* AutoMoveMazeState::new(Some(seed)): gen_range(1..=9) for every cell in
\* row-major order, the characters at (0, 0)
auto_new(seed) ==
    [ points |-> [c \in 1..(AUTO_H * AUTO_W) |-> 1 + Gen(seed, c, 9)],
      turn |-> 0,
      characters |-> [id \in 1..CHARACTER_N |-> [y |-> 0, x |-> 0]],
      game_score |-> 0 ]

set_character(s, character_id, y, x) ==
    [s EXCEPT !.characters[character_id + 1] = [y |-> y, x |-> x]]

auto_is_done(s) == s.turn = AUTO_END_TURN

\* move_player: `for action in legal_action { if point > best_point {..} }`
RECURSIVE BestMove(_, _, _, _, _)
BestMove(s, character, actions, best_point, best_action_index) ==
    IF actions = << >> THEN best_action_index
    ELSE LET action == Head(actions)
             point == s.points[AutoCell(character.y + dy[action + 1],
                                        character.x + dx[action + 1])]
         IN  IF point > best_point
             THEN BestMove(s, character, Tail(actions), point, action)
             ELSE BestMove(s, character, Tail(actions), best_point,
                           best_action_index)

move_player(s, character_id) ==
    LET character == s.characters[character_id + 1]
        legal_action ==
            SelectSeq(<<0, 1, 2, 3>>,
                      LAMBDA action :
                          LET ty == character.y + dy[action + 1]
                              tx == character.x + dx[action + 1]
                          IN  ty >= 0 /\ ty < AUTO_H /\ tx >= 0 /\ tx < AUTO_W)
        best_action_index ==
            BestMove(s, character, legal_action, -INF, legal_action[1])
    IN  set_character(s, character_id,
                      character.y + dy[best_action_index + 1],
                      character.x + dx[best_action_index + 1])

\* `for character_id in 0..CHARACTER_N { self.move_player(character_id) }`
RECURSIVE MoveFrom(_, _)
MoveFrom(s, character_id) ==
    IF character_id = CHARACTER_N THEN s
    ELSE MoveFrom(move_player(s, character_id), character_id + 1)

\* `for character in &self.characters { game_score += *point; *point = 0 }`
RECURSIVE CollectFrom(_, _)
CollectFrom(s, character_id) ==
    IF character_id = CHARACTER_N THEN s
    ELSE LET character == s.characters[character_id + 1]
             c == AutoCell(character.y, character.x)
         IN  CollectFrom([s EXCEPT !.game_score = @ + s.points[c],
                                   !.points[c] = 0],
                         character_id + 1)

auto_advance(s) == [CollectFrom(MoveFrom(s, 0), 0) EXCEPT !.turn = @ + 1]

\* `while !tmp_state.is_done() { tmp_state.advance() }`
RECURSIVE RunToEnd(_)
RunToEnd(tmp_state) ==
    IF auto_is_done(tmp_state) THEN tmp_state
    ELSE RunToEnd(auto_advance(tmp_state))

\* get_score(&mut self, false): the score it returns, and self as the
\* call leaves it (the game is played on the clone tmp_state)
get_score(self) ==
    LET under == {AutoCell(self.characters[k].y, self.characters[k].x) :
                    k \in 1..CHARACTER_N}
        tmp_state == [self EXCEPT !.points =
                        [c \in 1..(AUTO_H * AUTO_W) |->
                            IF c \in under THEN 0 ELSE self.points[c]]]
    IN  [score |-> RunToEnd(tmp_state).game_score, self |-> self]

\* The global RNG is a stream shared by all calls: rng.seed stands for
\* where the stream is when simulated_annealing is called, rng.k counts
\* the draws made since.
Draw(rng, k, n) == Gen(rng.seed, rng.k + k, n)

\* init: y and x of every character are drawn in turn
init(s, rng) ==
    [s EXCEPT !.characters =
        [id \in 1..CHARACTER_N |->
            [y |-> Draw(rng, 2 * id - 1, AUTO_H),
             x |-> Draw(rng, 2 * id, AUTO_W)]]]

\* transition: one character, drawn, is put on a drawn cell
transition(s, rng) ==
    set_character(s, Draw(rng, 1, CHARACTER_N), Draw(rng, 2, AUTO_H),
                  Draw(rng, 3, AUTO_W))

NoAnneal ==
    [ pc |-> "idle", given |-> << >>, rng |-> [seed |-> 0, k |-> 0],
      number |-> 0, start_temp |-> 0, end_temp |-> 0, i |-> 0,
      now_state |-> << >>, now_score |-> 0,
      best_state |-> << >>, best_score |-> 0,
      scored |-> << >>, returned |-> << >> ]

-----------------------------------------------------------------------------
NoState == [ y |-> 0, x |-> 0, points |-> [c \in 1..(H * W) |-> 0],
             turn |-> 0, game_score |-> 0, evaluated_score |-> 0,
             first_action |-> -1 ]
Idle ==
    /\ engine = "none" /\ beam_width = 0 /\ beam_depth = 0
    /\ timeOver = FALSE
    /\ now_beam = << >> /\ next_beam = << >> /\ best_state = NoState
    /\ t = 0 /\ i = 0 /\ beam = << >> /\ result = -1
    /\ rounds = 0 /\ pops = 0 /\ timedOut = FALSE /\ completed = << >>
    /\ reportedLog = << >>

\* the search's locals are dropped when it returns
DropSearch ==
    /\ engine' = "none" /\ beam_width' = 0 /\ beam_depth' = 0
    /\ timeOver' = FALSE
    /\ now_beam' = << >> /\ next_beam' = << >> /\ best_state' = NoState
    /\ t' = 0 /\ i' = 0 /\ beam' = << >> /\ result' = -1
    /\ rounds' = 0 /\ pops' = 0 /\ timedOut' = FALSE /\ completed' = << >>
    /\ reportedLog' = << >>

\* test_ai_score / play_game: `let mut state = MazeState::new(seed)`
Init ==
    /\ \E seed \in 0..MaxSeed : state = new(seed)
    /\ pc = "play"
    /\ Idle
    /\ anneal = NoAnneal

\* TimeKeeper::is_time_over
is_time_over == timeOver

\* The clock passes the threshold while a search runs (at once when the
\* threshold is 0); elapsed time never goes back.
Tick ==
    /\ pc \in {"beam", "chok"}
    /\ ~timeOver
    /\ timeOver' = TRUE
    /\ UNCHANGED <<state, pc, engine, beam_width, beam_depth, now_beam,
                   next_beam, best_state, t, i, beam, result, rounds, pops,
                   timedOut, completed, reportedLog,
                   anneal>>

-----------------------------------------------------------------------------
(***************************************************************************)
(* beam_search_action_with_time_threshold(state, beam_width, threshold)    *)
(***************************************************************************)
\* the function is entered with `state` as root: `now_beam.push(state
\* .clone()); best_state = state.clone()`, the clock started
BeamEntry ==
    /\ \E w \in 0..MaxWidth : beam_width' = w
    /\ engine' = "beam"
    /\ now_beam' = Push(<< >>, state)
    /\ best_state' = state
    /\ next_beam' = << >>
    /\ t' = 0 /\ i' = 0
    /\ timeOver' = FALSE
    /\ pc' = "beam"
    /\ UNCHANGED <<state, beam_depth, beam, result, rounds, pops, timedOut,
                   completed, reportedLog,
                   anneal>>

\* `while !state.is_done() { let action = beam_search...(&state, w, 10)`
StartBeam ==
    /\ pc = "play"
    /\ ~is_done(state)
    /\ BeamEntry

BeamClockCheckedBetweenRoundsOnly(k) == k = 0

\* the clock is read at the top of every iteration k of the inner loop
BeamClockCheckedAt(k) == TRUE

BeamTimeOverResultNoFallback == AsUsize(best_state.first_action)

BeamTimeOverResultFromNextBeam ==
    IF next_beam # << >> THEN AsUsize(Peek(next_beam).first_action)
    ELSE IF best_state.first_action = -1 THEN legal_actions(state)[1]
    ELSE AsUsize(best_state.first_action)

\* `match best_state.first_action { -1 => state.legal_actions()[0], _ => .. }`
BeamTimeOverResult ==
    IF best_state.first_action = -1 THEN legal_actions(state)[1]
    ELSE AsUsize(best_state.first_action)

\* an iteration that finds the clock expired returns at once
BeamTimeOver ==
    /\ pc = "beam"
    /\ i < beam_width
    /\ BeamClockCheckedAt(i) /\ is_time_over
    /\ result' = BeamTimeOverResult
    /\ timedOut' = TRUE
    /\ pc' = "done"
    /\ UNCHANGED <<state, engine, beam_width, beam_depth, timeOver, now_beam,
                   next_beam, best_state, t, i, beam, rounds, pops,
                   completed, reportedLog,
                   anneal>>

\* an iteration that pops the best state and pushes its successors
BeamExpand ==
    /\ pc = "beam"
    /\ i < beam_width
    /\ ~(BeamClockCheckedAt(i) /\ is_time_over)
    /\ now_beam # << >>
    /\ rounds < MaxBeamRounds
    /\ now_beam' = PopHeap(now_beam)
    /\ next_beam' = Expand(next_beam, Peek(now_beam), t)
    /\ i' = i + 1
    /\ pops' = pops + 1
    /\ UNCHANGED <<state, pc, engine, beam_width, beam_depth, timeOver,
                   best_state, t, beam, result, rounds, timedOut, completed,
                   reportedLog,
                   anneal>>

\* the inner loop is over (beam_width iterations, or `break` on an empty
\* frontier): `now_beam = next_beam; best_state = now_beam.peek().unwrap()
\* .clone(); t += 1; if best_state.is_done() { break }`, and after the
\* outer loop `best_state.first_action as usize`
BeamRoundEnd ==
    /\ pc = "beam"
    /\ \/ i = beam_width
       \/ /\ i < beam_width
          /\ ~(BeamClockCheckedAt(i) /\ is_time_over)
          /\ now_beam = << >>
    /\ now_beam' = next_beam
    /\ completed' = next_beam
    /\ IF next_beam = << >>
       THEN \* peek() is None: unwrap panics
            /\ pc' = "panic"
            /\ UNCHANGED <<best_state, t, i, next_beam, result, rounds>>
       ELSE /\ best_state' = Peek(next_beam)
            /\ t' = t + 1
            /\ rounds' = rounds + 1
            /\ IF is_done(Peek(next_beam))
               THEN /\ pc' = "done"
                    /\ result' = AsUsize(Peek(next_beam).first_action)
                    /\ UNCHANGED <<i, next_beam>>
               ELSE /\ pc' = "beam"
                    /\ i' = 0
                    /\ next_beam' = << >>
                    /\ UNCHANGED result
    /\ UNCHANGED <<state, engine, beam_width, beam_depth, timeOver, beam,
                   pops, timedOut, reportedLog,
                   anneal>>

-----------------------------------------------------------------------------
(***************************************************************************)
(* chokudai_search_action_wirh_time_threshold(state, beam_width,           *)
(*                                            beam_depth, threshold)       *)
(***************************************************************************)
\* the function is entered with `state` as root:
\* `vec![BinaryHeap::new(); beam_depth + 1]; beam[0].push(state.clone())`
ChokEntry ==
    /\ \E w \in 0..MaxChokWidth : beam_width' = w
    /\ \E d \in 0..MaxDepth :
          /\ beam_depth' = d
          /\ beam' = [k \in 1..(d + 1) |->
                        IF k = 1 THEN Push(<< >>, state) ELSE << >>]
    /\ engine' = "chok"
    /\ t' = 0
    /\ timeOver' = FALSE
    /\ pc' = "chok"
    /\ reportedLog' = <<state.evaluated_score>>
    /\ UNCHANGED <<state, now_beam, next_beam, best_state, i, result, rounds,
                   pops, timedOut, completed,
                   anneal>>

\* `while !state.is_done() { let action = chokudai_search...(&state, w,
\*    d, 10)`
StartChok ==
    /\ pc = "play"
    /\ ~is_done(state)
    /\ ChokEntry

RECURSIVE ChokPopsNoDoneCheck(_, _, _, _)
ChokPopsNoDoneCheck(now, next, k, depth) ==
    IF k = 0 \/ now = << >> THEN <<now, next>>
    ELSE ChokPopsNoDoneCheck(PopHeap(now), Expand(next, Peek(now), depth),
                             k - 1, depth)

\* `for _ in 0..beam_width { if now_beam.is_empty() { break }
\*    if now_beam.peek().unwrap().clone().is_done() { break }
\*    let now_state = now_beam.pop().unwrap(); ...push successors... }`
\* on the clones of beam[t] and beam[t + 1]; the pair they end as.
RECURSIVE ChokPops(_, _, _, _)
ChokPops(now, next, k, depth) ==
    IF k = 0 \/ now = << >> THEN <<now, next>>
    ELSE IF is_done(Peek(now)) THEN <<now, next>>
    ELSE ChokPops(PopHeap(now), Expand(next, Peek(now), depth), k - 1,
                  depth)

NextBeamStartsEmpty(frontiers, depth) == << >>

\* `let mut next_beam = beam[t + 1].clone()`: what earlier rounds pushed
\* into the next depth is kept
NextBeamStart(frontiers, depth) == frontiers[depth + 2]

ChokDepthLoopReadsClock == is_time_over

\* the `for t in 0..beam_depth` loop holds no is_time_over() call
ChokDepthLoopAborts == FALSE

ChokResultShallowestFirst(frontiers) ==
    LET nonEmpty == {k \in 1..Len(frontiers) : frontiers[k] # << >>}
    IN  IF nonEmpty = {} THEN 0
        ELSE AsUsize(Peek(frontiers[CHOOSE k \in nonEmpty :
                              \A m \in nonEmpty : k <= m]).first_action)

\* `for t in (0..=beam_depth).rev() { if let Some(best_state) =
\*    beam[t].peek() { return best_state.first_action as usize } } 0`
ChokResult(frontiers) ==
    LET nonEmpty == {k \in 1..Len(frontiers) : frontiers[k] # << >>}
    IN  IF nonEmpty = {} THEN 0
        ELSE AsUsize(Peek(frontiers[CHOOSE k \in nonEmpty :
                              \A m \in nonEmpty : m <= k]).first_action)

\* evaluated score of the state ChokResult reads (-1: there is none)
ChokReported(frontiers) ==
    LET nonEmpty == {k \in 1..Len(frontiers) : frontiers[k] # << >>}
    IN  IF nonEmpty = {} THEN -1
        ELSE Peek(frontiers[CHOOSE k \in nonEmpty :
                              \A m \in nonEmpty : m <= k]).evaluated_score

\* one pass of the body of `for t in 0..beam_depth`
ChokDepth ==
    /\ pc = "chok"
    /\ t < beam_depth
    /\ IF ChokDepthLoopAborts
       THEN /\ pc' = "done"
            /\ result' = ChokResult(beam)
            /\ timedOut' = TRUE
            /\ UNCHANGED <<beam, t, pops>>
       ELSE LET done == ChokPops(beam[t + 1], NextBeamStart(beam, t),
                                 beam_width, t)
            IN  /\ beam' = [beam EXCEPT ![t + 1] = done[1],
                                        ![t + 2] = done[2]]
                /\ pops' = pops + (Len(beam[t + 1]) - Len(done[1]))
                /\ t' = t + 1
                /\ UNCHANGED <<pc, result, timedOut>>
    /\ UNCHANGED <<state, engine, beam_width, beam_depth, timeOver, now_beam,
                   next_beam, best_state, i, rounds, completed, reportedLog,
                   anneal>>

\* the round is over: `if time_keeper.is_time_over() { break }`, then the
\* scan of the frontiers; otherwise the next round starts
ChokRoundEnd ==
    /\ pc = "chok"
    /\ t = beam_depth
    /\ is_time_over \/ rounds + 1 < MaxRounds
    /\ rounds' = rounds + 1
    /\ reportedLog' = Append(reportedLog, ChokReported(beam))
    /\ IF is_time_over
       THEN /\ pc' = "done"
            /\ result' = ChokResult(beam)
            /\ timedOut' = TRUE
            /\ UNCHANGED t
       ELSE /\ t' = 0
            /\ UNCHANGED <<pc, result, timedOut>>
    /\ UNCHANGED <<state, engine, beam_width, beam_depth, timeOver, now_beam,
                   next_beam, best_state, i, beam, pops, completed,
                   anneal>>

-----------------------------------------------------------------------------
(***************************************************************************)
(* The play loops                                                          *)
(***************************************************************************)
\* `state.advance(action)` with the action a search returned.  An action
\* outside 0..3 indexes dx out of bounds, an illegal one indexes points out
\* of bounds: both panic.
PlaySearchAction ==
    /\ pc = "done"
    /\ IF result \in Range(legal_actions(state))
       THEN /\ state' = advance(state, result)
            /\ pc' = "play"
       ELSE /\ pc' = "crash"
            /\ UNCHANGED state
    /\ DropSearch
    /\ UNCHANGED anneal

\* TestGreedyScore03.rs: `state.advance(greedy_action(&state))`
PlayGreedyAction ==
    /\ pc = "play"
    /\ ~is_done(state)
    /\ state' = advance(state, greedy_action(state))
    /\ UNCHANGED <<pc, engine, beam_width, beam_depth, timeOver, now_beam,
                   next_beam, best_state, t, i, beam, result, rounds, pops,
                   timedOut, completed, reportedLog,
                   anneal>>

Next ==
    \/ StartBeam
    \/ BeamTimeOver
    \/ BeamExpand
    \/ BeamRoundEnd
    \/ StartChok
    \/ ChokDepth
    \/ ChokRoundEnd
    \/ Tick
    \/ PlaySearchAction
    \/ PlayGreedyAction

Spec == Init /\ [][Next]_vars

\* a search that has been entered keeps running: its loop takes its next
\* iteration, ends its round or returns
SpecFair == Spec /\ WF_vars(BeamTimeOver \/ BeamExpand \/ BeamRoundEnd)

-----------------------------------------------------------------------------
(***************************************************************************)
(* The searches called directly.  Neither function checks its root: it     *)
(* may be handed any MazeState, one whose game is over included.           *)
(***************************************************************************)
CallBeam ==
    /\ pc = "play"
    /\ BeamEntry

CallChok ==
    /\ pc = "play"
    /\ ChokEntry

NextCall ==
    \/ CallBeam
    \/ BeamTimeOver
    \/ BeamExpand
    \/ BeamRoundEnd
    \/ CallChok
    \/ ChokDepth
    \/ ChokRoundEnd
    \/ Tick
    \/ PlayGreedyAction

SpecCall == Init /\ [][NextCall]_vars

-----------------------------------------------------------------------------
(***************************************************************************)
(* simulated_annealing(state, number, start_temp, end_temp)                *)
(* anneal.pc is "idle" | "loop" | "returned"; anneal.scored is history:    *)
(* the scores get_score returned during the call, in order.                *)
(***************************************************************************)
\* test_ai_score: `let mut state = AutoMoveMazeState::new(Some(i))`
InitAnneal ==
    /\ \E seed \in 0..MaxSeed, r \in 0..MaxRngSeed :
          anneal = [NoAnneal EXCEPT !.given = auto_new(seed),
                                    !.rng = [seed |-> r, k |-> 0]]
    /\ state = NoState
    /\ pc = "anneal"
    /\ Idle

\* `now_state = state.clone(); now_state.init(); best_score = now_state
\* .get_score(false); now_score = best_score; best_state = now_state
\* .clone()`
AnnealEntry ==
    /\ anneal.pc = "idle"
    /\ \E number \in 0..MaxNumber, start_temp \in Temps, end_temp \in Temps :
          LET scored == get_score(init(anneal.given, anneal.rng))
          IN  anneal' = [anneal EXCEPT
                  !.pc = "loop",
                  !.number = number,
                  !.start_temp = start_temp,
                  !.end_temp = end_temp,
                  !.i = 0,
                  !.rng.k = @ + 2 * CHARACTER_N,
                  !.now_state = scored.self,
                  !.now_score = scored.score,
                  !.best_state = scored.self,
                  !.best_score = scored.score,
                  !.scored = <<scored.score>>]
    /\ UNCHANGED <<state, pc, engine, beam_width, beam_depth, timeOver,
                   now_beam, next_beam, best_state, t, i, beam, result,
                   rounds, pops, timedOut, completed, reportedLog>>

\* sign of `start_temp + (end_temp - start_temp) * (i / number)`
TempSign(start_temp, end_temp, k, number) ==
    LET scaled == start_temp * number + (end_temp - start_temp) * k
    IN  IF scaled > 0 THEN 1 ELSE IF scaled < 0 THEN -1 ELSE 0

\* `probability = (-(next_score - now_score) / temp).exp();
\*  is_force_next = probability > rng.gen_range(0.0..1.0)` in f64:
\* a probability of 1 or more beats every draw, one strictly between 0 and
\* 1 beats the draw or not (lucky), 0 and NaN beat none.
is_force_next(next_score, now_score, temp_sign, lucky) ==
    LET diff == next_score - now_score
    IN  CASE temp_sign = 1  -> IF diff <= 0 THEN TRUE ELSE lucky
          [] temp_sign = -1 -> IF diff >= 0 THEN TRUE ELSE lucky
          [] OTHER          -> diff < 0

AnnealReturnsNowState == anneal.now_state

\* `best_state` is what the function returns
AnnealReturned == anneal.best_state

\* one pass of `for i in 0..number`
AnnealStep ==
    /\ anneal.pc = "loop"
    /\ anneal.i < anneal.number
    /\ \E lucky \in BOOLEAN :
          LET scored == get_score(transition(anneal.now_state, anneal.rng))
              next_state == scored.self
              next_score == scored.score
              temp_sign == TempSign(anneal.start_temp, anneal.end_temp,
                                    anneal.i, anneal.number)
              moves == \/ next_score > anneal.now_score
                       \/ is_force_next(next_score, anneal.now_score,
                                        temp_sign, lucky)
              improves == next_score > anneal.best_score
          IN  anneal' = [anneal EXCEPT
                  !.i = @ + 1,
                  !.rng.k = @ + 3,
                  !.now_score = IF moves THEN next_score ELSE @,
                  !.now_state = IF moves THEN next_state ELSE @,
                  !.best_score = IF improves THEN next_score ELSE @,
                  !.best_state = IF improves THEN next_state ELSE @,
                  !.scored = Append(@, next_score)]
    /\ UNCHANGED <<state, pc, engine, beam_width, beam_depth, timeOver,
                   now_beam, next_beam, best_state, t, i, beam, result,
                   rounds, pops, timedOut, completed, reportedLog>>

\* the loop is over: `best_state` goes back to test_ai_score
AnnealReturn ==
    /\ anneal.pc = "loop"
    /\ anneal.i = anneal.number
    /\ anneal' = [anneal EXCEPT !.pc = "returned",
                                !.returned = AnnealReturned]
    /\ UNCHANGED <<state, pc, engine, beam_width, beam_depth, timeOver,
                   now_beam, next_beam, best_state, t, i, beam, result,
                   rounds, pops, timedOut, completed, reportedLog>>

NextAnneal ==
    \/ AnnealEntry
    \/ AnnealStep
    \/ AnnealReturn

SpecAnneal == InitAnneal /\ [][NextAnneal]_vars

-----------------------------------------------------------------------------
(***************************************************************************)
(* Properties                                                              *)
(***************************************************************************)
LegalSet(s) == Range(legal_actions(s))

\* the score of the successor that `action` leads to
SuccessorScore(s, action) == evaluate_score(advance(s, action)).evaluated_score

\* exhaustive search: the greatest final game_score any legal action
\* sequence reaches from s at END_TURN
RECURSIVE BestFrom(_)
BestFrom(s) ==
    IF is_done(s) THEN s.game_score
    ELSE LET finals == {BestFrom(advance(s, a)) : a \in LegalSet(s)}
         IN  CHOOSE m \in finals : \A n \in finals : n <= m

\* first actions of the action sequences that attain BestFrom(s)
OptimalFirstActions(s) ==
    {a \in LegalSet(s) : BestFrom(advance(s, a)) = BestFrom(s)}

RECURSIVE Pow4(_)
Pow4(n) == IF n <= 0 THEN 1 ELSE 4 * Pow4(n - 1)

ClockNeverExpired == ~timedOut /\ ~timeOver

\* C1: called on a non-terminal root with beam_width >= 1 (and beam_depth
\* >= 1 for chokudai search), neither engine panics, whenever the clock
\* expires, and the action it returns is one of root.legal_actions().
C1_ReturnsLegalAction ==
    (/\ engine \in {"beam", "chok"}
     /\ beam_width >= 1
     /\ engine = "chok" => beam_depth >= 1)
    => /\ pc # "panic"
       /\ pc = "done" => result \in LegalSet(state)

\* beam search returned the fallback: the clock was over before any round
C1_Witness ==
    /\ pc = "done" /\ engine = "beam" /\ beam_width >= 1
    /\ timedOut /\ rounds = 0
    /\ result = legal_actions(state)[1]

\* C2: beam search called with beam_width = 0 expands nothing and returns
\* the first legal action of root, as a result and not as a panic.
C2_ZeroWidthReturnsFallback ==
    (engine = "beam" /\ beam_width = 0)
    => /\ pc # "panic"
       /\ pops = 0
       /\ pc = "done" => result = legal_actions(state)[1]

\* C3: chokudai search called with beam_width = 0 (here with beam_depth
\* >= 1) leaves every frontier empty and returns the first legal action of
\* root.
C3_ZeroWidthReturnsFirstLegal ==
    (engine = "chok" /\ beam_width = 0 /\ beam_depth >= 1 /\ pc = "done")
    => /\ \A k \in 1..Len(beam) : beam[k] = << >>
       /\ result = legal_actions(state)[1]
       /\ result \in LegalSet(state)

\* C4: when beam search returns because the clock expired, it returns the
\* first_action of the highest-ranked state of the frontier the last
\* completed round built, or the first legal action of root when no round
\* completed; the unfinished next frontier plays no part.
C4_TimeoutReturnsLastRoundBest ==
    (pc = "done" /\ engine = "beam" /\ timedOut)
    => IF rounds = 0
       THEN result = legal_actions(state)[1]
       ELSE /\ result = AsUsize(Peek(completed).first_action)
            /\ \A k \in 1..Len(completed) :
                  completed[k].evaluated_score
                      <= Peek(completed).evaluated_score

\* the interrupted round had already built a frontier whose best state
\* descends from another first action than the one returned
C4_Witness ==
    /\ pc = "done" /\ engine = "beam" /\ timedOut
    /\ rounds >= 1
    /\ next_beam # << >>
    /\ AsUsize(Peek(next_beam).first_action) # result
    /\ Peek(next_beam).evaluated_score > Peek(completed).evaluated_score

\* C5: once the clock has expired beam search pops and expands no further
\* state, and the next iteration of the inner loop returns.
C5_NoExpansionAfterExpiry ==
    [][(pc = "beam" /\ timeOver)
       => /\ pops' = pops
          /\ i < beam_width => (pc' = "done" /\ timedOut')]_vars

\* the clock expired in the middle of a round: states were popped in it,
\* others are left in the frontier, the loop had iterations to go
C5_Witness ==
    /\ pc = "done" /\ engine = "beam" /\ timedOut
    /\ i > 0 /\ i < beam_width
    /\ now_beam # << >>

\* C6: chokudai search reads the clock between rounds only: a round that
\* started runs depths 0..beam_depth-1 in order to its end whatever the
\* clock says, the search returns only after at least one whole round, and
\* a round end that finds the clock expired starts no further round.
C6_ClockBetweenRoundsOnly ==
    /\ []((engine = "chok" /\ pc = "done")
            => (rounds >= 1 /\ t = beam_depth))
    /\ [][(pc = "chok" /\ t < beam_depth)
          => /\ pc' = "chok"
             /\ \/ t' = t /\ beam' = beam
                \/ /\ t' = t + 1
                   /\ \A k \in 1..Len(beam) :
                         k \notin {t + 1, t + 2} => beam'[k] = beam[k]]_vars
    /\ [][(pc = "chok" /\ t = beam_depth /\ timeOver)
          => (pc' = "done" /\ beam' = beam)]_vars
    /\ [][(pc = "chok" /\ t = beam_depth /\ t' = 0 /\ beam_depth > 0)
          => ~timeOver]_vars

\* the clock expired before the first round was half done, and the round
\* goes on with the next depth
C6_Witness ==
    /\ pc = "chok" /\ timeOver /\ rounds = 0
    /\ t >= 1 /\ t < beam_depth
    /\ beam[t + 1] # << >>
    /\ pops >= 1

\* C7 as stated: with a clock that never expires and beam_width >= 4, beam
\* search returns the first action of an action sequence that attains the
\* greatest final score of any legal sequence up to END_TURN.
C7_WidthFourIsExhaustive ==
    (/\ pc = "done" /\ engine = "beam"
     /\ ClockNeverExpired
     /\ beam_width >= 4)
    => result \in OptimalFirstActions(state)

\* C7 (amended): the same, for beam_width >= 4 that is also at least
\* 4^(END_TURN - root.turn - 1), so that no round leaves a state of its
\* frontier unexpanded (with beam_width = 4: at most two turns remain).
C7_UntruncatedIsExhaustive ==
    (/\ pc = "done" /\ engine = "beam"
     /\ ClockNeverExpired
     /\ beam_width >= 4
     /\ beam_width >= Pow4(END_TURN - state.turn - 1))
    => result \in OptimalFirstActions(state)

\* two turns remain, beam_width covers the 4 successors, and some legal
\* first action is not optimal
C7_Witness ==
    /\ pc = "done" /\ engine = "beam"
    /\ ClockNeverExpired
    /\ beam_width >= 4
    /\ state.turn = END_TURN - 2
    /\ result \in OptimalFirstActions(state)
    /\ OptimalFirstActions(state) # LegalSet(state)

\* C8: with beam_width = 1 and a clock that never expires, beam search
\* returns what greedy_action returns: a legal action whose successor has
\* the greatest evaluated score among root's successors.
C8_WidthOneIsGreedy ==
    (/\ pc = "done" /\ engine = "beam"
     /\ ClockNeverExpired
     /\ beam_width = 1)
    => /\ result = greedy_action(state)
       /\ result \in LegalSet(state)
       /\ \A a \in LegalSet(state) :
             SuccessorScore(state, a) <= SuccessorScore(state, result)

\* one turn remains and two successors tie for the greatest score
C8_Witness ==
    /\ pc = "done" /\ engine = "beam"
    /\ ClockNeverExpired
    /\ beam_width = 1
    /\ state.turn = END_TURN - 1
    /\ result = greedy_action(state)
    /\ \E a \in LegalSet(state) :
          a # result /\ SuccessorScore(state, a) = SuccessorScore(state, result)

\* C9: the evaluated score of the state chokudai search would answer with
\* after round n (the best of the deepest non-empty frontier) never
\* decreases as n grows (round 0: the root alone).
C9_AnytimeNonDecreasing ==
    (engine = "chok" /\ beam_width >= 1 /\ beam_depth >= 1)
    => \A n \in 1..(Len(reportedLog) - 1) :
          reportedLog[n] <= reportedLog[n + 1]

\* a second round raised the score reported after the first
C9_Witness ==
    /\ engine = "chok" /\ beam_width >= 1 /\ beam_depth >= 1
    /\ Len(reportedLog) >= 3
    /\ reportedLog[2] < reportedLog[3]

\* the board a state holds, whatever it is stamped with
Unstamped(s) == [s EXCEPT !.first_action = -1]

\* the states that n legal actions lead to from s, scored as they are made
RECURSIVE ReachedIn(_, _)
ReachedIn(s, n) ==
    IF n = 0 THEN {s}
    ELSE UNION {ReachedIn(evaluate_score(advance(s, a)), n - 1) :
                  a \in LegalSet(s)}

\* every state of a frontier `depth` actions below root is what a legal
\* path that starts with the state's first_action leads to; at depth 0
\* there is root alone, unstamped
FrontierStamped(root, frontier, depth) ==
    IF depth = 0
    THEN \A k \in 1..Len(frontier) :
            frontier[k] = root /\ frontier[k].first_action = -1
    ELSE LET byFirst == [a \in LegalSet(root) |->
                           ReachedIn(evaluate_score(advance(root, a)),
                                     depth - 1)]
         IN  \A k \in 1..Len(frontier) :
                /\ frontier[k].first_action \in LegalSet(root)
                /\ Unstamped(frontier[k]) \in byFirst[frontier[k].first_action]

\* C11: every frontier state at depth >= 1 carries as first_action the
\* first action of a path from root that produces it (stamped on the
\* direct successors of root, inherited unchanged below); only root
\* carries -1.
C11_FirstActionIsPathHead ==
    /\ engine = "beam"
       => /\ FrontierStamped(state, now_beam, t)
          /\ pc = "beam" => FrontierStamped(state, next_beam, t + 1)
    /\ engine = "chok"
       => \A k \in 1..Len(beam) : FrontierStamped(state, beam[k], k - 1)

\* two or more actions below root a frontier holds a state that no path
\* starting with another action than its first_action leads to
C11_Witness ==
    /\ pc = "beam" /\ t >= 1
    /\ \E k \in 1..Len(next_beam) :
          /\ next_beam[k].first_action \in LegalSet(state)
          /\ \A a \in LegalSet(state) \ {next_beam[k].first_action} :
                Unstamped(next_beam[k])
                    \notin ReachedIn(evaluate_score(advance(state, a)), t)

\* index of the deepest non-empty frontier (0: every frontier is empty)
DeepestNonEmpty(frontiers) ==
    LET nonEmpty == {k \in 1..Len(frontiers) : frontiers[k] # << >>}
    IN  IF nonEmpty = {} THEN 0
        ELSE CHOOSE k \in nonEmpty : \A m \in nonEmpty : m <= k

\* the greatest evaluated score held by a non-empty frontier
MaxScore(frontier) ==
    LET scores == {frontier[k].evaluated_score : k \in 1..Len(frontier)}
    IN  CHOOSE m \in scores : \A n \in scores : n <= m

\* C12: when the round loop of chokudai search exits, the value returned
\* is the first_action of a state of greatest evaluated score of the
\* deepest non-empty frontier, whatever the shallower frontiers hold.
C12_ReturnsBestOfDeepestFrontier ==
    (pc = "done" /\ engine = "chok")
    => LET d == DeepestNonEmpty(beam)
       IN  /\ d >= 1
           /\ \E j \in 1..Len(beam[d]) :
                 /\ beam[d][j].evaluated_score = MaxScore(beam[d])
                 /\ result = AsUsize(beam[d][j].first_action)

\* a shallower frontier holds a state that scores as high as the best of
\* the deepest one and descends from another first action
C12_Witness ==
    /\ pc = "done" /\ engine = "chok"
    /\ DeepestNonEmpty(beam) >= 3
    /\ \E k \in 2..(DeepestNonEmpty(beam) - 1) :
          \E j \in 1..Len(beam[k]) :
             /\ beam[k][j].evaluated_score
                   >= MaxScore(beam[DeepestNonEmpty(beam)])
             /\ AsUsize(beam[k][j].first_action) # result

InGrid(y, x) == y \in 0..(H - 1) /\ x \in 0..(W - 1)

\* every MazeState the program holds: the play loop's and the frontiers'
MazeStates ==
    {state}
        \cup Range(now_beam) \cup Range(next_beam)
        \cup UNION {Range(beam[k]) : k \in 1..Len(beam)}

\* C13: for every maze state reached by legal actions, legal_actions() is
\* not empty (while the game is not over in particular), lists exactly
\* the directions whose target lies inside the H x W grid, in the order
\* right, left, down, up, and advance by any of them keeps the character
\* inside the grid.
C13_LegalActionsStayInGrid ==
    \A s \in MazeStates :
       LET actions == legal_actions(s)
       IN  /\ InGrid(s.y, s.x)
           /\ ~is_done(s) => actions # << >>
           /\ Range(actions)
                 = {a \in 0..3 : InGrid(s.y + dy[a + 1], s.x + dx[a + 1])}
           /\ \A k \in 1..(Len(actions) - 1) : actions[k] < actions[k + 1]
           /\ \A k \in 1..Len(actions) :
                 InGrid(advance(s, actions[k]).y, advance(s, actions[k]).x)

\* the character has been moved into the bottom-right corner, where only
\* left and up remain, and a search holds successors of that state
C13_Witness ==
    /\ state.turn >= 1
    /\ legal_actions(state) = <<1, 3>>
    /\ \E s \in MazeStates : s.turn > state.turn

\* C14 as stated: beam search called with a root whose game is over
\* (turn = END_TURN) expands no state, creates no state with turn >
\* END_TURN, and returns root's first_action or root's first legal action
\* without waiting for the clock to expire (beam_width >= 1).
C14_TerminalRootReturnsAtOnce ==
    (engine = "beam" /\ is_done(state) /\ beam_width >= 1)
    => /\ pops = 0
       /\ \A s \in MazeStates : s.turn <= END_TURN
       /\ pc # "panic"
       /\ pc = "done"
          => /\ ~timedOut
             /\ result \in {AsUsize(state.first_action),
                            legal_actions(state)[1]}

\* C15: chokudai search never expands a state whose game is over: for
\* every root with turn <= END_TURN, every beam_width and every beam_depth
\* (beyond the turns that remain included) no state with turn > END_TURN
\* is created, and every state of frontier t has turn = root.turn + t.
C15_ChokudaiStopsAtEndTurn ==
    engine = "chok"
    => /\ state.turn <= END_TURN
       /\ \A k \in 1..Len(beam) :
             \A j \in 1..Len(beam[k]) :
                /\ beam[k][j].turn = state.turn + (k - 1)
                /\ beam[k][j].turn <= END_TURN

\* beam_depth is beyond the turns that remain: after a whole round the
\* frontier of the last turn holds finished games that were not expanded,
\* and every deeper frontier is empty
C15_Witness ==
    /\ pc = "done" /\ engine = "chok" /\ beam_width >= 1
    /\ beam_depth > END_TURN - state.turn
    /\ LET last == END_TURN - state.turn + 1
       IN  /\ beam[last] # << >>
           /\ \A j \in 1..Len(beam[last]) : is_done(beam[last][j])
           /\ \A k \in (last + 1)..Len(beam) : beam[k] = << >>

\* C16: in every reachable state of a chokudai search, whatever
\* beam_width, beam_depth and root, at least one of the beam_depth + 1
\* frontiers is non-empty, so the scan that ends the search finds a state
\* and the `0` after it is never what the search returns.
C16_SomeFrontierNonEmpty ==
    engine = "chok"
    => /\ Len(beam) = beam_depth + 1
       /\ \E k \in 1..Len(beam) : beam[k] # << >>
       /\ pc = "done"
          => \E k \in 1..Len(beam) :
                /\ beam[k] # << >>
                /\ result = AsUsize(Peek(beam[k]).first_action)

\* the search returns with root popped and a single frontier left holding
\* states
C16_Witness ==
    /\ pc = "done" /\ engine = "chok"
    /\ beam[1] = << >>
    /\ Cardinality({k \in 1..Len(beam) : beam[k] # << >>}) = 1

\* C17: with a clock that never expires, beam_width >= 1 and a root whose
\* game is not over (turn = k < END_TURN), beam search terminates, after
\* exactly END_TURN - k completed rounds, and returns the first_action of
\* a state of greatest evaluated score of the last frontier, all of whose
\* states are finished games.
C17_TerminatesAfterRemainingTurns ==
    /\ []((engine = "beam" /\ beam_width >= 1 /\ ClockNeverExpired)
           => /\ state.turn < END_TURN
              /\ pc \in {"beam", "done"}
              /\ pc = "beam" => rounds < END_TURN - state.turn
              /\ pc = "done"
                 => /\ rounds = END_TURN - state.turn
                    /\ completed # << >>
                    /\ \A k \in 1..Len(completed) :
                          completed[k].turn = END_TURN
                    /\ \E k \in 1..Len(completed) :
                          /\ completed[k].evaluated_score
                                = MaxScore(completed)
                          /\ result = AsUsize(completed[k].first_action))
    /\ (pc = "beam" /\ beam_width >= 1) ~> (pc = "done" \/ timeOver)

\* a search of several rounds ran to the end of the game untimed, and its
\* last frontier holds finished games that descend from different first
\* actions
C17_Witness ==
    /\ pc = "done" /\ engine = "beam" /\ beam_width >= 1
    /\ ClockNeverExpired
    /\ state.turn <= END_TURN - 2
    /\ rounds = END_TURN - state.turn
    /\ \E k \in 1..Len(completed) :
          completed[k].first_action # Peek(completed).first_action

\* how often s occurs in a frontier
Count(frontier, s) == Cardinality({k \in 1..Len(frontier) : frontier[k] = s})

\* frontier `after` is frontier `before` with one occurrence of s taken out
TakenOut(before, after, s) ==
    /\ Len(after) = Len(before) - 1
    /\ \A u \in Range(before) :
          Count(after, u) = Count(before, u) - (IF u = s THEN 1 ELSE 0)

\* C18: in every round of beam search at most beam_width states are
\* popped and expanded; each popped state is one of greatest evaluated
\* score of the current frontier, so it scores at least as high as every
\* state left unexpanded; and the next frontier never holds more than
\* 4 * beam_width states.
C18_RoundPopsBestWithinWidth ==
    /\ [](engine = "beam"
            => /\ i <= beam_width
               /\ Len(next_beam) <= 4 * beam_width)
    /\ [][(pc = "beam" /\ (pops' # pops \/ now_beam' # now_beam)
                       /\ pc' = "beam" /\ t' = t)
          => /\ pops' = pops + 1 /\ i' = i + 1
             /\ \E k \in 1..Len(now_beam) :
                   /\ now_beam[k].evaluated_score = MaxScore(now_beam)
                   /\ TakenOut(now_beam, now_beam', now_beam[k])
                   /\ Len(next_beam') = Len(next_beam)
                                           + Len(legal_actions(now_beam[k]))
                   /\ \A j \in 1..Len(now_beam') :
                         now_beam'[j].evaluated_score
                             <= now_beam[k].evaluated_score]_vars

\* a round used up its beam_width pops, filled the next frontier to
\* 4 * beam_width states, and left states of the current frontier
\* unexpanded, one of them scoring strictly less than the best at hand
C18_Witness ==
    /\ pc = "beam" /\ beam_width >= 2 /\ i = beam_width
    /\ Len(next_beam) = 4 * beam_width
    /\ now_beam # << >>
    /\ \E k \in 1..Len(now_beam) :
          now_beam[k].evaluated_score < best_state.evaluated_score

RECURSIVE SumCells(_, _)
SumCells(points, n) == IF n = 0 THEN 0 ELSE points[n] + SumCells(points, n - 1)

\* what a state has scored plus what is left on its grid
Total(s) == s.game_score + SumCells(s.points, H * W)

\* s is what `depth` legal actions make of root, as far as score and turn go
Conserved(root, s, depth) ==
    /\ Total(s) = Total(root)
    /\ s.game_score >= root.game_score
    /\ s.turn = root.turn + depth

\* C19: along every sequence of legal actions applied with advance,
\* game_score plus the points left on the grid stays what the grid held
\* at the start (where game_score is 0), game_score never decreases, and
\* turn grows by exactly 1 per action.
C19_ScoreConservation ==
    /\ [](state.turn = 0 => state.game_score = 0)
    /\ [][state' # state
          => /\ Total(state') = Total(state)
             /\ state'.game_score >= state.game_score
             /\ state'.turn = state.turn + 1]_vars
    /\ [](/\ \A k \in 1..Len(now_beam) : Conserved(state, now_beam[k], t)
          /\ pc = "beam"
             => \A k \in 1..Len(next_beam) :
                   Conserved(state, next_beam[k], t + 1)
          /\ \A d \in 1..Len(beam) :
                \A k \in 1..Len(beam[d]) :
                   Conserved(state, beam[d][k], d - 1))

\* in the middle of a game a search holds a successor that collected
\* points and another that stepped on an empty cell, while points remain
C19_Witness ==
    /\ pc = "beam"
    /\ state.turn >= 1 /\ state.game_score >= 1
    /\ \E k, m \in 1..Len(next_beam) :
          /\ next_beam[k].game_score > state.game_score
          /\ next_beam[m].game_score = state.game_score
          /\ SumCells(next_beam[k].points, H * W) >= 1

\* the greatest of a non-empty sequence of scores
MaxOf(scores) == CHOOSE m \in Range(scores) : \A n \in Range(scores) : n <= m

\* a placement on the board simulated_annealing was given, no turn played
Unplayed(s) ==
    /\ s.points = anneal.given.points
    /\ s.turn = 0
    /\ s.game_score = 0

\* C20: simulated_annealing returns the best placement it ever evaluated:
\* get_score of the returned state is the greatest of the scores of the
\* initial placement and of every candidate generated during the run,
\* accepted or not; and get_score leaves the state it is called on
\* unchanged, so that a second call gives the same value.
C20_ReturnsBestEvaluated ==
    /\ anneal.pc # "idle"
       => /\ Unplayed(anneal.now_state)
          /\ Unplayed(anneal.best_state)
          /\ anneal.best_score = MaxOf(anneal.scored)
          /\ Len(anneal.scored) = anneal.i + 1
    /\ anneal.pc = "returned"
       => LET first == get_score(anneal.returned)
              second == get_score(first.self)
          IN  /\ anneal.i = anneal.number
              /\ first.score = MaxOf(anneal.scored)
              /\ first.self = anneal.returned
              /\ second.score = first.score

\* the run ended on a placement that scores less than the one returned,
\* which was a candidate of the run and not the initial placement
C20_Witness ==
    /\ anneal.pc = "returned"
    /\ anneal.number >= 2
    /\ anneal.returned # anneal.now_state
    /\ anneal.best_score > anneal.now_score
    /\ anneal.best_score > anneal.scored[1]
    /\ anneal.scored[Len(anneal.scored)] < anneal.best_score

=============================================================================
